---- MODULE Spec2Model ----
(***************************************************************************)
(* Barcode scan session of the library catalog: the useScanner hook        *)
(* (src/src/hooks/useScanner.tsx), the validator of the BarcodeScanner     *)
(* component that consumes it, the decoding engine and the host media      *)
(* platform it drives.                                                     *)
(*                                                                         *)
(* React state (isScanning, cameras, selectedCamera, error) is read by a   *)
(* callback from the render that created the callback, not from the        *)
(* current state: `r` is the latest render, a timer keeps the render of    *)
(* the call that armed it, an awaited continuation the render of its call. *)
(* Every handler, timer callback and promise continuation is one action    *)
(* (the event loop is single-threaded).                                    *)
(***************************************************************************)
EXTENDS Integers, Sequences, FiniteSets, TLC

VARIABLES
    phase,          \* "init" (constructed), "mounted", "unmounted"
    readerRef,      \* readerRef.current is set
    isScanning, cameras, selectedCamera, error,   \* the hook's React state
    r,              \* the latest render: what the current callbacks read
    streamRef,      \* streamRef.current: a stream id, 0 for null
    live,           \* streams whose tracks are not stopped
    engineStream,   \* the engine's own stream (0: none)
    video,          \* the consumer has the 'video-preview' element rendered
    videoSrc,       \* srcObject of that element (0: none)
    loops,          \* streams a decode loop is bound to
    pending,        \* stream acquisitions of decodeFromVideoDevice in flight
    enum,           \* getCameras calls suspended at an await
    timers,         \* armed 500 ms timers, in firing order
    lastOp,         \* history: "start" right after a startScanning call,
                    \* "stop" right after a stopScanning call, "start2"
                    \* since two startScanning calls in a row, until another
                    \* call, the preview's removal or a failed acquisition;
                    \* else "other"
    attachedStale,  \* history: the engine's stream is of a superseded start
    text,           \* a decoded text handed to the validator, one character
                    \* after the other
    verdict,        \* what handleDetection did with it: "none" yet,
                    \* "accepted" (forwarded) or "rejected"
    isVisible,      \* showScanner of the AddBook page, the isVisible prop of
                    \* the BarcodeScanner component
    shown,          \* isVisible as of the component's latest render
    room,           \* operations followed in flight at a time, a bound
    listing,        \* the video input devices the platform has
    regranted,      \* the user has granted the camera permission after a
                    \* denial
    quantity        \* formData.quantity of the AddBook page

vars == <<phase, readerRef, isScanning, cameras, selectedCamera, error, r,
          streamRef, live, engineStream, video, videoSrc, loops, pending, enum,
          timers, lastOp, attachedStale, text, verdict, isVisible, shown,
          room, listing, regranted, quantity>>

\* what the hook's own operations leave alone
aux == <<text, verdict, isVisible, shown, room, listing, regranted, quantity>>

\* the hook's state
hookVars == <<phase, readerRef, isScanning, cameras, selectedCamera, error, r,
              streamRef, live, engineStream, video, videoSrc, loops, pending,
              enum, timers, lastOp, attachedStale>>

\* ------------------------------------------------------------------ bounds
\* stream ids in use at a time
MaxStreams == 2
\* length of a text handed to the validator
MaxText == 14
\* length of the text in the quantity field
MaxField == 3
\* the quantity up to which the plus button is followed
MaxQuantity == 20
\* operations in flight at a time: stream acquisitions, suspended getCameras
\* calls and armed restarts; and, separately, armed timers
MaxInFlight == 2
\* the same with the component's effect, which runs with every render,
\* starting them too
MaxInFlightUi == 3
\* video input devices of the platform
MaxDevices == 3

\* ----------------------------------------------------------------- devices
Chars(s) ==
    CASE s = "Front"       -> <<"F", "r", "o", "n", "t">>
      [] s = "Back Camera" -> <<"B", "a", "c", "k", " ", "C", "a", "m", "e", "r", "a">>
      [] s = "USB Cam"     -> <<"U", "S", "B", " ", "C", "a", "m">>
      [] s = "REAR"        -> <<"R", "E", "A", "R">>
      [] s = "Traseira"    -> <<"T", "r", "a", "s", "e", "i", "r", "a">>
      [] s = "back"        -> <<"b", "a", "c", "k">>
      [] s = "traseira"    -> <<"t", "r", "a", "s", "e", "i", "r", "a">>
      [] s = "rear"        -> <<"r", "e", "a", "r">>
      [] OTHER             -> <<>>

DevA == [deviceId |-> "a", label |-> "Front"]
DevB == [deviceId |-> "b", label |-> "Back Camera"]

\* what listVideoInputDevices may answer
DeviceLists == {<<>>, <<DevA, DevB>>}

\* ids passed to changeCamera: none, and an id that is listed or not
DeviceIds == {"", "a"}

\* devices the platform can open a stream on ("" is the engine's default)
Openable == {"", "a", "b"}

Ids(devs) == {devs[i].deviceId : i \in 1..Len(devs)}

toLowerCase(c) ==
    CASE c = "A" -> "a" [] c = "B" -> "b" [] c = "C" -> "c" [] c = "E" -> "e"
      [] c = "F" -> "f" [] c = "R" -> "r" [] c = "S" -> "s" [] c = "T" -> "t"
      [] c = "U" -> "u" [] OTHER -> c

includes(s, sub) ==
    \E i \in 0..(Len(s) - Len(sub)) :
        \A j \in 1..Len(sub) : s[i + j] = sub[j]

lower(s) == [i \in 1..Len(s) |-> toLowerCase(s[i])]

\* a variant that compares the label as it is written
isBackCaseSensitive(device) ==
    \/ includes(Chars(device.label), Chars("back"))
    \/ includes(Chars(device.label), Chars("traseira"))
    \/ includes(Chars(device.label), Chars("rear"))

isBack(device) ==
    \/ includes(lower(Chars(device.label)), Chars("back"))
    \/ includes(lower(Chars(device.label)), Chars("traseira"))
    \/ includes(lower(Chars(device.label)), Chars("rear"))

\* a variant that falls back to the last device
cameraToUseLast(devs) ==
    IF \E i \in 1..Len(devs) : isBack(devs[i])
    THEN devs[CHOOSE i \in 1..Len(devs) :
                 /\ isBack(devs[i])
                 /\ \A j \in 1..(i - 1) : ~isBack(devs[j])].deviceId
    ELSE devs[Len(devs)].deviceId

\* devices.find(...)?.deviceId || devices[0].deviceId, for a non-empty list
cameraToUse(devs) ==
    IF \E i \in 1..Len(devs) : isBack(devs[i])
    THEN devs[CHOOSE i \in 1..Len(devs) :
                 /\ isBack(devs[i])
                 /\ \A j \in 1..(i - 1) : ~isBack(devs[j])].deviceId
    ELSE devs[1].deviceId

\* ------------------------------------------------------------------ helpers
Count(q, kind) == Cardinality({i \in 1..Len(q) : q[i].kind = kind})

InFlight(tq) == Len(pending) + Len(enum) + Count(tq, "restart")

Remove(s, i) == [j \in 1..(Len(s) - 1) |-> IF j < i THEN s[j] ELSE s[j + 1]]

\* React drops state updates of an unmounted component
Set(cur, new) == IF phase = "unmounted" THEN cur ELSE new

\* what a render hands to the callbacks it creates: isScanning,
\* selectedCamera and, all they read of cameras, the value of
\* `!selectedCamera && cameras.length === 0`
Render == [isScanning |-> isScanning, selectedCamera |-> selectedCamera,
           noCamera |-> selectedCamera = "" /\ Len(cameras) = 0]

\* the render a callback holds that never reads it
Unread == [isScanning |-> FALSE, selectedCamera |-> "", noCamera |-> TRUE]

\* isScanning, the refs and the hardware they reach, as one value that the
\* handlers thread through the calls they make
HW == [isScanning |-> isScanning, streamRef |-> streamRef, live |-> live,
       engineStream |-> engineStream, videoSrc |-> videoSrc, loops |-> loops,
       stale |-> attachedStale]

SetHW(h) ==
    /\ isScanning' = h.isScanning
    /\ streamRef' = h.streamRef
    /\ live' = h.live
    /\ engineStream' = h.engineStream
    /\ videoSrc' = h.videoSrc
    /\ loops' = h.loops
    /\ attachedStale' = h.stale

hwVars == <<isScanning, streamRef, live, engineStream, videoSrc, loops,
            attachedStale>>

\* ids for the stream of an acquisition that resolves: not an open stream's
\* (the engine's own is stopped first), not the one streamRef holds
FreeIds == (1..MaxStreams) \ ((live \ {engineStream}) \cup {streamRef})

\* the id the next stream gets: the lowest when it will be attached, the
\* highest when it will be orphaned
NewStream ==
    IF video THEN CHOOSE s \in FreeIds : \A x \in FreeIds : s <= x
             ELSE CHOOSE s \in FreeIds : \A x \in FreeIds : s >= x

\* id of the throwaway permission stream of getCameras
PermissionStream == MaxStreams + 1

\* --------------------------------------------------------- decoded texts
Digits == {"0", "1", "2", "3", "4", "5", "6", "7", "8", "9"}

Isbn13 == <<"9", "7", "8", "0", "3", "4", "5", "3", "9", "1", "8", "0", "3">>
Abc123 == <<"A", "B", "C", "1", "2", "3">>

\* what the decode loop may hand to its callback: no result (<<>>) or a text
DecodeResults == {<<>>, Isbn13, Abc123}

\* characters a validated text is made of: a digit and a non-digit
TextChars == {"9", "-"}

\* \d{n} matched at position i: the position after the match, 0 for no match
RECURSIVE matchDigits(_, _, _)
matchDigits(s, i, n) ==
    IF n = 0 THEN i
    ELSE IF i <= Len(s) /\ s[i] \in Digits THEN matchDigits(s, i + 1, n - 1)
    ELSE 0

\* a variant that takes a failed match for the end
atEndOrNoMatch(s, i) == i = Len(s) + 1 \/ i = 0

\* $ at position i
atEnd(s, i) == i = Len(s) + 1

\* a variant without the $ anchor
isbnRegexTestOpenEnd(result) ==
    \/ matchDigits(result, 1, 10) # 0
    \/ matchDigits(result, 1, 13) # 0

\* /^(?:\d{10}|\d{13})$/.test(result): from the start of the text, ten
\* digits and the end, or else thirteen digits and the end
isbnRegexTest(result) ==
    \/ atEnd(result, matchDigits(result, 1, 10))
    \/ atEnd(result, matchDigits(result, 1, 13))

\* ------------------------------------------------- engine and stream effects
\* BrowserMultiFormatReader.reset(): stops the engine's stream and its decode
\* loop and detaches the video element
reset(h) ==
    [h EXCEPT !.live = @ \ {h.engineStream}, !.engineStream = 0,
              !.videoSrc = 0, !.loops = {}, !.stale = FALSE]

\* a variant that stops the tracks and keeps the handle
releaseTracksKeepHandle(h) ==
    IF h.streamRef # 0 THEN [h EXCEPT !.live = @ \ {h.streamRef}] ELSE h

\* a variant that stops the tracks of every open stream
releaseTracksAll(h) == [h EXCEPT !.live = {}, !.streamRef = 0]

\* if (streamRef.current) { tracks.forEach(stop); streamRef.current = null }
releaseTracks(h) ==
    IF h.streamRef # 0
    THEN [h EXCEPT !.live = @ \ {h.streamRef}, !.streamRef = 0]
    ELSE h

\* if (readerRef.current) readerRef.current.reset()
resetReader(h) == IF readerRef THEN reset(h) ELSE h

\* a variant that sets the flag whatever the value
setIsScanningOn(h, value) == [h EXCEPT !.isScanning = Set(@, TRUE)]

\* setIsScanning(value)
setIsScanning(h, value) == [h EXCEPT !.isScanning = Set(@, value)]

\* a variant that flips isScanning instead of clearing it
stopScanningToggle(h) ==
    setIsScanning(resetReader(releaseTracks(h)), ~h.isScanning)

\* stopScanning(): release the held stream, reset the engine, clear the flag
stopScanning(h) == setIsScanning(resetReader(releaseTracks(h)), FALSE)

\* a variant that leaves the tracks running
permissionGrantKept(l) == l \cup {PermissionStream}

\* getUserMedia({video: true}) resolved, then every track of it stopped
permissionGrant(l) == (l \cup {PermissionStream}) \ {PermissionStream}

\* decodeFromStream of the engine: reset(), then attach the stream to the
\* 'video-preview' element and run the decode loop on it; without the element
\* the attach throws and the stream stays open with nobody holding it
attach(h, s, p) ==
    LET h0 == reset(h) IN
    IF video
    THEN [h0 EXCEPT !.live = @ \cup {s}, !.engineStream = s, !.videoSrc = s,
                    !.loops = {s}, !.stale = p.superseded]
    ELSE [h0 EXCEPT !.live = @ \cup {s}]

supersede(q) == [i \in 1..Len(q) |-> [q[i] EXCEPT !.superseded = TRUE]]

\* ------------------------------------------------------------------- Init
Constructed ==
    /\ phase = "init"
    /\ readerRef = FALSE
    /\ isScanning = FALSE
    /\ cameras = <<>>
    /\ selectedCamera = ""
    /\ error = ""
    /\ r = [isScanning |-> FALSE, selectedCamera |-> "", noCamera |-> TRUE]
    /\ streamRef = 0
    /\ live = {}
    /\ engineStream = 0
    /\ video = FALSE
    /\ videoSrc = 0
    /\ loops = {}
    /\ pending = <<>>
    /\ enum = <<>>
    /\ timers = <<>>
    /\ lastOp = "other"
    /\ attachedStale = FALSE
    /\ text = <<>>
    /\ verdict = "none"
    /\ isVisible = FALSE
    /\ shown = FALSE
    /\ listing = <<>>
    /\ regranted = FALSE
    /\ quantity = 1

Init == Constructed /\ room = MaxInFlight

\* the hook in the component, in the page
InitUi == Constructed /\ room = MaxInFlightUi

\* any other step ends the instant after a call
Settle == IF lastOp \in {"start", "stop"} THEN "other" ELSE lastOp

\* React has rendered the state the last handler left: it does so before the
\* event loop runs the next timer, continuation or engine callback
Rendered == phase = "unmounted" \/ r = Render

\* ---------------------------------------------------------------- actions
\* useEffect(() => { ...; readerRef.current = reader; ... }, [])
Mount ==
    /\ Rendered
    /\ phase = "init"
    /\ phase' = "mounted"
    /\ readerRef' = TRUE
    /\ lastOp' = Settle
    /\ UNCHANGED <<aux, cameras, selectedCamera, error, r, hwVars, video,
                   pending, enum, timers>>

\* the effect's cleanup: stopScanning(); readerRef.current.reset()
Unmount ==
    /\ Rendered
    /\ phase = "mounted"
    /\ phase' = "unmounted"
    /\ SetHW(resetReader(stopScanning(HW)))
    /\ video' = FALSE
    /\ lastOp' = "other"
    /\ UNCHANGED <<aux, readerRef, cameras, selectedCamera, error, r,
                   pending, enum, timers>>

\* the consumer renders the 'video-preview' element, which it does only with
\* cameras listed, or renders without it; a removed element takes its
\* srcObject along, the engine keeps its stream
ShowVideo ==
    /\ phase = "mounted"
    /\ cameras # <<>>
    /\ ~video
    /\ video' = TRUE
    /\ lastOp' = Settle
    /\ UNCHANGED <<aux, phase, readerRef, cameras, selectedCamera, error, r,
                   hwVars, pending, enum, timers>>

HideVideo ==
    /\ phase = "mounted"
    /\ video
    /\ video' = FALSE
    /\ SetHW([HW EXCEPT !.videoSrc = 0])
    /\ lastOp' = "other"
    /\ UNCHANGED <<aux, phase, readerRef, cameras, selectedCamera, error, r,
                   pending, enum, timers>>

\* React renders the component again with the current state
Rerender ==
    /\ phase # "unmounted"
    /\ r # Render
    /\ r' = Render
    /\ lastOp' = Settle
    /\ UNCHANGED <<aux, phase, readerRef, cameras, selectedCamera, error, hwVars,
                   video, pending, enum, timers>>

\* stopScanning(), called by the consumer
StopScanning ==
    /\ phase # "unmounted"
    /\ SetHW(stopScanning(HW))
    /\ lastOp' = "stop"
    /\ UNCHANGED <<aux, phase, readerRef, cameras, selectedCamera, error, r, video,
                   pending, enum, timers>>

\* a variant that requests nothing
getCamerasSkipped(sel, q) == q

\* getCameras up to its first await: setError(''), then getUserMedia. Of the
\* render that created it, it will read `!selectedCamera`
getCameras(sel, q) == Append(q, [pc |-> "permission", unselected |-> sel = ""])

\* a variant without setError('')
GetCamerasKeepError ==
    /\ phase # "unmounted"
    /\ InFlight(timers) < room
    /\ enum' = getCameras(r.selectedCamera, enum)
    /\ lastOp' = Settle
    /\ UNCHANGED <<aux, error, phase, readerRef, cameras, selectedCamera, r,
                   hwVars, video, pending, timers>>

\* getCameras(), called by the consumer
GetCameras ==
    /\ phase # "unmounted"
    /\ InFlight(timers) < room
    /\ error' = ""
    /\ enum' = getCameras(r.selectedCamera, enum)
    /\ lastOp' = Settle
    /\ UNCHANGED <<aux, phase, readerRef, cameras, selectedCamera, r, hwVars,
                   video, pending, timers>>

\* a variant whose denial branch does not return
GetCamerasPermissionNoReturn(i, granted) ==
    /\ Rendered
    /\ i \in 1..Len(enum)
    /\ enum[i].pc = "permission"
    /\ live' = IF granted THEN permissionGrant(live) ELSE live
    /\ error' = IF granted THEN error
                ELSE Set(error, "Camera permission denied. Please enable camera access in your browser settings.")
    /\ enum' = IF readerRef THEN [enum EXCEPT ![i].pc = "list"]
                            ELSE Remove(enum, i)
    /\ lastOp' = Settle
    /\ UNCHANGED <<aux, phase, readerRef, isScanning, cameras, selectedCamera, r,
                   streamRef, engineStream, video, videoSrc, loops,
                   attachedStale, pending, timers>>

\* the continuation of `await getUserMedia({video: true})`
GetCamerasPermission(i, granted) ==
    /\ Rendered
    /\ i \in 1..Len(enum)
    /\ enum[i].pc = "permission"
    /\ IF granted
       THEN /\ live' = permissionGrant(live)
            /\ error' = error
            /\ enum' = IF readerRef
                       THEN [enum EXCEPT ![i].pc = "list"]
                       ELSE Remove(enum, i)
       ELSE /\ live' = live
            /\ error' = Set(error, "Camera permission denied. Please enable camera access in your browser settings.")
            /\ enum' = Remove(enum, i)
    /\ lastOp' = Settle
    /\ UNCHANGED <<aux, phase, readerRef, isScanning, cameras, selectedCamera, r,
                   streamRef, engineStream, video, videoSrc, loops,
                   attachedStale, pending, timers>>

\* the continuation of `await readerRef.current.listVideoInputDevices()`:
\* the list, or a rejection caught by the outer catch
GetCamerasList(i, devices, rejected) ==
    /\ Rendered
    /\ i \in 1..Len(enum)
    /\ enum[i].pc = "list"
    /\ enum' = Remove(enum, i)
    /\ IF rejected
       THEN /\ error' = Set(error, "Could not access cameras. Please check your permissions.")
            /\ UNCHANGED <<cameras, selectedCamera>>
       ELSE /\ error' = error
            /\ cameras' = Set(cameras, devices)
            /\ selectedCamera' =
                   IF Len(devices) > 0 /\ enum[i].unselected
                   THEN Set(selectedCamera, cameraToUse(devices))
                   ELSE selectedCamera
    /\ lastOp' = Settle
    /\ UNCHANGED <<aux, phase, readerRef, r, hwVars, video, pending, timers>>

\* a variant that does not set isScanning
bindDecodeSilent(c, h) == reset(IF c.isScanning THEN stopScanning(h) ELSE h)

\* the body of startScanning from `if (isScanning)` to the armed lookup, on
\* the refs and isScanning
bindDecode(c, h) ==
    setIsScanning(reset(IF c.isScanning THEN stopScanning(h) ELSE h), TRUE)

\* startScanning as the render c created it, called with the refs and
\* isScanning at h and with tq the armed timers; op is what lastOp records
\* when the decode is bound. decodeFromVideoDevice is an
\* async method: it returns its promise and fails by rejecting it, so the
\* catch around the call has nothing to catch
startScanningAfter(h, c, tq, op) ==
    IF ~readerRef THEN
        /\ error' = Set(error, "")
        /\ timers' = tq
        /\ lastOp' = Settle
        /\ SetHW(h)
        /\ UNCHANGED <<pending, enum>>
    ELSE IF c.noCamera THEN
        /\ InFlight(tq) < room
        /\ error' = Set(error, "")
        /\ enum' = getCameras(c.selectedCamera, enum)
        /\ timers' = tq
        /\ lastOp' = Settle
        /\ SetHW(h)
        /\ UNCHANGED pending
    ELSE
        /\ InFlight(tq) < room
        /\ Len(tq) < room
        /\ error' = Set(error, "")
        /\ SetHW(bindDecode(c, h))
        /\ pending' = Append(supersede(pending),
                             [deviceId |-> c.selectedCamera,
                              superseded |-> FALSE])
        /\ timers' = Append(tq, [kind |-> "lookup"])
        /\ enum' = enum
        /\ lastOp' = op

startScanning(c, tq, op) == startScanningAfter(HW, c, tq, op)

\* startScanning(), called by the consumer, which has the preview rendered
\* when it starts a scan
StartScanning ==
    /\ phase # "unmounted"
    /\ video
    /\ startScanning(r, timers,
                     IF lastOp = "start" THEN "start2" ELSE "start")
    /\ UNCHANGED <<aux, phase, readerRef, cameras, selectedCamera, r, video>>

\* the timer changeCamera arms: the id, and the render whose startScanning
\* it will call
restartTimer(deviceId) ==
    [kind |-> "restart", deviceId |-> deviceId,
     c |-> IF deviceId # "" THEN r ELSE Unread]

\* changeCamera(deviceId), called by the consumer
ChangeCamera(deviceId) ==
    /\ phase # "unmounted"
    /\ InFlight(timers) < room
    /\ Len(timers) < room
    /\ SetHW(IF r.isScanning THEN stopScanning(HW) ELSE HW)
    /\ selectedCamera' = deviceId
    /\ timers' = Append(timers, restartTimer(deviceId))
    /\ lastOp' = "other"
    /\ UNCHANGED <<aux, phase, readerRef, cameras, error, r, video, pending, enum>>

\* the stream-handle lookup armed by startScanning fires
TimerLookup ==
    /\ Rendered
    /\ timers # <<>>
    /\ Head(timers).kind = "lookup"
    /\ timers' = Tail(timers)
    /\ streamRef' = IF video /\ videoSrc # 0 THEN videoSrc ELSE streamRef
    /\ lastOp' = Settle
    /\ UNCHANGED <<aux, phase, readerRef, isScanning, cameras, selectedCamera,
                   error, r, live, engineStream, video, videoSrc, loops,
                   attachedStale, pending, enum>>

\* the restart armed by changeCamera fires
TimerRestart ==
    /\ Rendered
    /\ timers # <<>>
    /\ Head(timers).kind = "restart"
    /\ IF Head(timers).deviceId # ""
       THEN startScanning(Head(timers).c, Tail(timers), "other")
       ELSE /\ timers' = Tail(timers)
            /\ lastOp' = Settle
            /\ UNCHANGED <<error, hwVars, pending, enum>>
    /\ UNCHANGED <<aux, phase, readerRef, cameras, selectedCamera, r, video>>

\* an acquisition of decodeFromVideoDevice ends: the promise rejects (nobody
\* awaits it), or the engine gets the stream and attaches it
EngineResolve(i, ok) ==
    /\ Rendered
    /\ i \in 1..Len(pending)
    /\ pending' = Remove(pending, i)
    /\ IF ok
       THEN /\ pending[i].deviceId \in Openable
            /\ FreeIds # {}
            /\ SetHW(attach(HW, NewStream, pending[i]))
       ELSE UNCHANGED hwVars
    /\ lastOp' = IF ok THEN Settle ELSE "other"
    /\ UNCHANGED <<aux, phase, readerRef, cameras, selectedCamera, error, r, video,
                   enum, timers>>

\* a variant that forwards an accepted text and leaves the scan running
handleDetectionForwardOnly(result, h) == h

\* the validator the consumer registers as onDetected
handleDetection(result, h) ==
    IF isbnRegexTest(result) THEN stopScanning(h) ELSE h

\* the decode loop calls back with a result or none (<<>>); the hook hands a
\* result to onDetected
Decode(result) ==
    /\ Rendered
    /\ loops # {}
    /\ SetHW(IF result # <<>> THEN handleDetection(result, HW) ELSE HW)
    /\ lastOp' = "other"
    /\ UNCHANGED <<aux, phase, readerRef, cameras, selectedCamera, error, r, video,
                   pending, enum, timers>>

Next ==
    \/ Mount
    \/ Unmount
    \/ Rerender
    \/ ShowVideo
    \/ HideVideo
    \/ StopScanning
    \/ GetCameras
    \/ \E i \in 1..MaxInFlight, granted \in BOOLEAN :
           GetCamerasPermission(i, granted)
    \/ \E i \in 1..MaxInFlight, devices \in DeviceLists, rejected \in BOOLEAN :
           GetCamerasList(i, devices, rejected)
    \/ StartScanning
    \/ \E deviceId \in DeviceIds \cap Ids(cameras) : ChangeCamera(deviceId)
    \/ TimerLookup
    \/ TimerRestart
    \/ \E i \in 1..MaxInFlight, ok \in BOOLEAN : EngineResolve(i, ok)
    \/ \E result \in DecodeResults : Decode(result)

\* the hook under a consumer that offers the listed cameras for selection
Spec == Init /\ [][Next]_vars

\* the hook under any caller: changeCamera is passed any id
NextApi ==
    \/ Next
    \/ \E deviceId \in DeviceIds : ChangeCamera(deviceId)

SpecApi == Init /\ [][NextApi]_vars

\* ----------------------------------------------- a caller that only starts
\* startScanning(), called by a consumer from an effect or a handler, whatever
\* it has rendered
StartScanningAny ==
    /\ phase = "mounted"
    /\ startScanning(r, timers,
                     IF lastOp = "start" THEN "start2" ELSE "start")
    /\ UNCHANGED <<aux, phase, readerRef, cameras, selectedCamera, r, video>>

NextStart ==
    \/ Mount
    \/ Unmount
    \/ Rerender
    \/ ShowVideo
    \/ HideVideo
    \/ StopScanning
    \/ StartScanningAny
    \/ \E i \in 1..MaxInFlight, granted \in BOOLEAN :
           GetCamerasPermission(i, granted)
    \/ \E i \in 1..MaxInFlight, devices \in DeviceLists, rejected \in BOOLEAN :
           GetCamerasList(i, devices, rejected)
    \/ TimerLookup
    \/ \E i \in 1..MaxInFlight, ok \in BOOLEAN : EngineResolve(i, ok)
    \/ \E result \in DecodeResults : Decode(result)

\* the hook under a consumer that calls startScanning and stopScanning only
SpecStart == Init /\ [][NextStart]_vars

\* startScanning(), called before the hook's effect has created the reader
\* (from a layout effect or a ref callback of the consumer's first render)
StartScanningEarly ==
    /\ phase = "init"
    /\ startScanning(r, timers,
                     IF lastOp = "start" THEN "start2" ELSE "start")
    /\ UNCHANGED <<aux, phase, readerRef, cameras, selectedCamera, r, video>>

NextEarly ==
    \/ NextStart
    \/ GetCameras
    \/ StartScanningEarly

\* the hook under a consumer that may call it before the reader exists
SpecEarly == Init /\ [][NextEarly]_vars

\* ------------------------------------------------------------ the validator
\* the engine's text grows by a character
ReadChar(c) ==
    /\ Len(text) < MaxText
    /\ text' = Append(text, c)
    /\ verdict' = "none"
    /\ UNCHANGED <<hookVars, isVisible, shown, room, listing, regranted, quantity>>

\* handleDetection(text): toast.success, onDetected(text) and stopScanning()
\* for a text the pattern matches, toast.error for any other
HandleDetection ==
    /\ verdict = "none"
    /\ verdict' = IF isbnRegexTest(text) THEN "accepted" ELSE "rejected"
    /\ SetHW(handleDetection(text, HW))
    /\ UNCHANGED <<text, isVisible, shown, room, listing, regranted, quantity, phase,
                   readerRef,
                   cameras,
                   selectedCamera, error, r, video, pending, enum, timers,
                   lastOp>>

NextValidator ==
    \/ \E c \in TextChars : ReadChar(c)
    \/ HandleDetection

\* the validator on every text of up to MaxText characters
SpecValidator == Init /\ [][NextValidator]_vars

\* ------------------------------------------------------- the auto-selection
\* labels of the platform's devices
Labels == {"Front", "Back Camera", "USB Cam", "REAR", "Traseira"}

\* the id of the n-th device
IdAt(n) == <<"a", "b", "c", "d">>[n]

\* the platform has one more video input device
Plug(label) ==
    /\ Len(listing) < MaxDevices
    /\ listing' = Append(listing, [deviceId |-> IdAt(Len(listing) + 1),
                                   label |-> label])
    /\ UNCHANGED <<hookVars, text, verdict, isVisible, shown, room, regranted, quantity>>

NextSelect ==
    \/ \E label \in Labels : Plug(label)
    \/ Mount
    \/ Rerender
    \/ GetCameras
    \/ \E i \in 1..MaxInFlight, granted \in BOOLEAN :
           GetCamerasPermission(i, granted)
    \/ \E i \in 1..MaxInFlight, rejected \in BOOLEAN :
           GetCamerasList(i, listing, rejected)

\* getCameras on every list of up to MaxDevices devices
SpecSelect == Init /\ [][NextSelect]_vars

\* ------------------------------------------------- a permission re-granted
\* the user, shown the denial message, grants the camera permission in the
\* browser's settings
Regrant ==
    /\ ~regranted
    /\ error = "Camera permission denied. Please enable camera access in your browser settings."
    /\ regranted' = TRUE
    /\ UNCHANGED <<hookVars, text, verdict, isVisible, shown, room, listing,
                   quantity>>

NextRetry ==
    \/ Mount
    \/ Rerender
    \/ GetCameras
    \/ Regrant
    \/ \E i \in 1..MaxInFlight : GetCamerasPermission(i, regranted)
    \/ \E label \in Labels : Plug(label)
    \/ \E i \in 1..MaxInFlight, rejected \in BOOLEAN :
           GetCamerasList(i, listing, rejected)

\* getCameras on a platform that denies the permission until the user grants
\* it
SpecRetry == Init /\ [][NextRetry]_vars

\* ------------------------------------------- the scanner in the AddBook page
\* the component has rendered the state the last handler left
UiRendered ==
    \/ phase = "unmounted"
    \/ /\ r = Render
       /\ shown = isVisible
       /\ video = (isVisible /\ cameras # <<>>)

\* the "Scan Barcode" button of the page: setShowScanner(true)
Open ==
    /\ phase = "mounted"
    /\ UiRendered
    /\ ~isVisible
    /\ isVisible' = TRUE
    /\ lastOp' = Settle
    /\ UNCHANGED <<text, verdict, shown, room, listing, regranted, quantity, phase,
                   readerRef,
                   cameras,
                   selectedCamera, error, r, hwVars, video, pending, enum,
                   timers>>

\* the Cancel button: onClose, which is setShowScanner(false)
Close ==
    /\ phase = "mounted"
    /\ UiRendered
    /\ isVisible
    /\ isVisible' = FALSE
    /\ lastOp' = Settle
    /\ UNCHANGED <<text, verdict, shown, room, listing, regranted, quantity, phase,
                   readerRef,
                   cameras,
                   selectedCamera, error, r, hwVars, video, pending, enum,
                   timers>>

\* handleScannerDetection of the page, the onDetected the component forwards
\* to: setShowScanner(false)
handleScannerDetection(visible) == FALSE

\* the "Use Test ISBN" button: onDetected('9780345391803')
UseTestIsbn ==
    /\ phase = "mounted"
    /\ UiRendered
    /\ isVisible
    /\ isVisible' = handleScannerDetection(isVisible)
    /\ lastOp' = Settle
    /\ UNCHANGED <<text, verdict, shown, room, listing, regranted, quantity, phase,
                   readerRef,
                   cameras,
                   selectedCamera, error, r, hwVars, video, pending, enum,
                   timers>>

\* React renders the component, at any time (the page renders it with every
\* render of its own), and runs its effect, whose dependency `scanner` is a
\* new object with every render: the previous effect's cleanup
\* (stopScanning), then, visible, startScanning() with cameras listed and
\* getCameras() without, and, hidden, stopScanning(). The 'video-preview'
\* element is rendered when visible with cameras listed.
RenderUi ==
    /\ phase = "mounted"
    /\ LET c == Render
           preview == isVisible /\ cameras # <<>>
           dom == IF preview = video THEN HW ELSE [HW EXCEPT !.videoSrc = 0]
           h == stopScanning(dom)
       IN /\ r' = c
          /\ shown' = isVisible
          /\ video' = preview
          /\ IF isVisible /\ cameras # <<>> THEN
                 /\ startScanningAfter(h, c, timers,
                        IF lastOp = "start" THEN "start2" ELSE "start")
                 /\ verdict' = IF readerRef THEN "none" ELSE verdict
             ELSE IF isVisible THEN
                 /\ InFlight(timers) < room
                 /\ error' = ""
                 /\ enum' = getCameras(c.selectedCamera, enum)
                 /\ SetHW(h)
                 /\ lastOp' = Settle
                 /\ UNCHANGED <<verdict, pending, timers>>
             ELSE
                 /\ SetHW(stopScanning(h))
                 /\ lastOp' = "stop"
                 /\ UNCHANGED <<verdict, error, pending, enum, timers>>
    /\ UNCHANGED <<text, isVisible, room, listing, regranted, quantity, phase, readerRef,
                   cameras,
                   selectedCamera>>

\* a render that the state the last handler left calls for
RenderDue == ~UiRendered /\ RenderUi

\* the Stop / Start button of the preview
ClickStartStop ==
    /\ UiRendered
    /\ video
    /\ IF r.isScanning THEN StopScanning ELSE StartScanning

\* the Retry button, shown in place of the preview
ClickRetry ==
    /\ UiRendered
    /\ isVisible
    /\ cameras = <<>>
    /\ GetCameras

\* the camera selector, shown with more than one camera listed
SelectCamera(deviceId) ==
    /\ UiRendered
    /\ isVisible
    /\ Len(cameras) > 1
    /\ deviceId \in Ids(cameras)
    /\ ChangeCamera(deviceId)

\* a variant without `if (result)`
DecodeUiUnguarded(result) ==
    /\ Rendered
    /\ loops # {}
    /\ verdict' = IF isbnRegexTest(result) THEN "accepted" ELSE "rejected"
    /\ isVisible' = IF isbnRegexTest(result)
                    THEN handleScannerDetection(isVisible)
                    ELSE isVisible
    /\ SetHW(handleDetection(result, HW))
    /\ lastOp' = "other"
    /\ UNCHANGED <<text, shown, room, listing, regranted, quantity, phase, readerRef,
                   cameras,
                   selectedCamera, error, r, video, pending, enum, timers>>

\* the decode loop calls back, the hook hands a result to handleDetection:
\* toast.success, onDetected(result) and stopScanning() for a text the
\* pattern matches, toast.error for any other
DecodeUi(result) ==
    /\ Rendered
    /\ loops # {}
    /\ IF result # <<>>
       THEN /\ verdict' = IF isbnRegexTest(result) THEN "accepted"
                                                   ELSE "rejected"
            /\ isVisible' = IF isbnRegexTest(result)
                            THEN handleScannerDetection(isVisible)
                            ELSE isVisible
            /\ SetHW(handleDetection(result, HW))
       ELSE UNCHANGED <<verdict, isVisible, hwVars>>
    /\ lastOp' = "other"
    /\ UNCHANGED <<text, shown, room, listing, regranted, quantity, phase, readerRef,
                   cameras,
                   selectedCamera,
                   error, r, video, pending, enum, timers>>

\* what goes on without the user: renders, continuations, timers, the engine
NextUnattended ==
    \/ Mount
    \/ RenderUi
    \/ \E i \in 1..MaxInFlightUi, granted \in BOOLEAN :
           GetCamerasPermission(i, granted)
    \/ \E i \in 1..MaxInFlightUi, devices \in DeviceLists, rejected \in BOOLEAN :
           GetCamerasList(i, devices, rejected)
    \/ TimerLookup
    \/ \E i \in 1..MaxInFlightUi, ok \in BOOLEAN : EngineResolve(i, ok)
    \/ \E result \in DecodeResults : DecodeUi(result)

NextUi ==
    \/ NextUnattended
    \/ TimerRestart
    \/ Unmount
    \/ Open
    \/ Close
    \/ UseTestIsbn
    \/ ClickStartStop
    \/ ClickRetry
    \/ \E deviceId \in DeviceIds : SelectCamera(deviceId)

\* the BarcodeScanner component in the AddBook page
SpecUi == InitUi /\ [][NextUi]_vars

\* the user opens the scanner and does nothing more
NextHandoff ==
    \/ NextUnattended
    \/ Open

\* React does not leave a state unrendered, an armed timer fires, and the
\* platform settles a stream request
SpecHandoff ==
    /\ InitUi
    /\ [][NextHandoff]_vars
    /\ WF_vars(RenderDue)
    /\ WF_vars(TimerLookup)
    /\ WF_vars(\E i \in 1..MaxInFlightUi, ok \in BOOLEAN : EngineResolve(i, ok))

\* ------------------------------------------------- the quantity of AddBook
\* the characters typed into the quantity field
FieldChars == {"-", "0", "1", "2", "."}

\* the texts the quantity field can hold
FieldTexts == UNION {[1..n -> FieldChars] : n \in 0..MaxField}

isDigit(ch) == ch \in {"0", "1", "2"}

digitValue(ch) == CASE ch = "0" -> 0 [] ch = "1" -> 1 [] ch = "2" -> 2

\* the position after the run of digits of s that starts at i
RECURSIVE digitsEnd(_, _)
digitsEnd(s, i) ==
    IF i <= Len(s) /\ isDigit(s[i]) THEN digitsEnd(s, i + 1) ELSE i

\* the number written by the digits of s from i to j - 1, after acc
RECURSIVE digitsValue(_, _, _, _)
digitsValue(s, i, j, acc) ==
    IF i >= j THEN acc ELSE digitsValue(s, i + 1, j, acc * 10 + digitValue(s[i]))

\* e.target.value of an input of type "number": the text when it is a valid
\* floating-point number (an optional minus, digits, an optional fraction, or
\* a bare fraction), the empty string otherwise
value(s) ==
    LET b == IF Len(s) > 0 /\ s[1] = "-" THEN 2 ELSE 1
        e == digitsEnd(s, b)
        f == IF e <= Len(s) /\ s[e] = "." THEN digitsEnd(s, e + 1) ELSE e
    IN  IF /\ f = Len(s) + 1
           /\ IF f = e THEN e > b ELSE f > e + 1
        THEN s ELSE <<>>

\* parseInt(s): an optional sign and the longest run of digits after it, NaN
\* when there is no digit
parseInt(s) ==
    LET neg == Len(s) > 0 /\ s[1] = "-"
        b == IF neg THEN 2 ELSE 1
        e == digitsEnd(s, b)
        n == digitsValue(s, b, e, 0)
    IN  IF e = b THEN [nan |-> TRUE, n |-> 0]
        ELSE [nan |-> FALSE, n |-> IF neg THEN 0 - n ELSE n]

\* parseInt(s) || 1: NaN and 0 are falsy
parseIntOr1(s) ==
    LET p == parseInt(s) IN IF p.nan \/ p.n = 0 THEN 1 ELSE p.n

\* Math.max(1, prev.quantity + amount)
handleQuantityChange(prev, amount) ==
    IF prev + amount > 1 THEN prev + amount ELSE 1

\* the plus button
Increment ==
    /\ quantity < MaxQuantity
    /\ quantity' = handleQuantityChange(quantity, 1)
    /\ UNCHANGED <<hookVars, text, verdict, isVisible, shown, room, listing,
                   regranted>>

\* the minus button, disabled while quantity <= 1
Decrement ==
    /\ ~(quantity <= 1)
    /\ quantity' = handleQuantityChange(quantity, 0 - 1)
    /\ UNCHANGED <<hookVars, text, verdict, isVisible, shown, room, listing,
                   regranted>>

\* the onChange of the quantity field holding the text s
ChangeQuantity(s) ==
    /\ quantity' = parseIntOr1(value(s))
    /\ UNCHANGED <<hookVars, text, verdict, isVisible, shown, room, listing,
                   regranted>>

NextQuantity ==
    \/ Increment
    \/ Decrement
    \/ \E s \in FieldTexts : ChangeQuantity(s)

SpecQuantity == Init /\ [][NextQuantity]_vars

\* ----------------------------------------------------------------- claims
\* nothing is in flight: no acquisition, no getCameras call, no timer, and
\* the consumer has rendered the latest state
Quiet == pending = <<>> /\ enum = <<>> /\ timers = <<>> /\ Rendered

\* C1: while the hook is mounted, at most one capture stream is open and at
\* most one decode loop runs
C1_OneStreamOneLoop ==
    phase # "unmounted" => Cardinality(live) <= 1 /\ Cardinality(loops) <= 1

\* C2: once the hook is unmounted and nothing is in flight any more (nothing
\* can change from there), every stream that was acquired has been released
C2_AllReleased == (phase = "unmounted" /\ Quiet) => live = {}

\* C3: after two startScanning() calls in immediate succession, once their
\* acquisitions have resolved, exactly one stream is open, with one decode
\* loop on it, and it is the stream of the second call
C3_LatestStartWins ==
    (lastOp = "start2" /\ pending = <<>> /\ live # {})
        => /\ live = {engineStream}
           /\ loops = {engineStream}
           /\ ~attachedStale

\* C4: when isScanning is true and the start has settled (no acquisition and
\* no timer is outstanding), the hook holds an open capture stream
C4_ScanningHoldsStream ==
    (isScanning /\ pending = <<>> /\ timers = <<>>)
        => streamRef # 0 /\ streamRef \in live

\* C5: when the only outstanding stream acquisition of startScanning fails,
\* and the engine has no stream, the session is left not scanning
C5_FailedStartNotScanning ==
    [][(/\ Len(pending) = 1
        /\ engineStream = 0
        /\ EngineResolve(1, FALSE)) => ~isScanning']_vars

\* C6: a refresh of the device list leaves selectedCamera, if set, the id of
\* a listed device: a selection that was listed and is gone is cleared
C6_SelectionListedAfterRefresh ==
    [][(/\ selectedCamera \in Ids(cameras) \cup {""}
        /\ \E i \in 1..Len(enum) : \E devices \in DeviceLists :
               GetCamerasList(i, devices, FALSE))
           => selectedCamera' \in Ids(cameras') \cup {""}]_vars

\* C7: changeCamera(x) with x not the id of a listed device changes none of
\* isScanning, cameras, selectedCamera, error, arms no timer and starts no
\* stream
C7_UnlistedSelectionNoOp ==
    [][\A deviceId \in DeviceIds \ {""} :
          (deviceId \notin Ids(cameras) /\ ChangeCamera(deviceId))
              => UNCHANGED <<isScanning, cameras, selectedCamera, error,
                             timers, pending>>]_vars

\* C8: when changeCamera(id) was called with a listed id during a scan, the
\* restart its timer makes acquires the stream of that id
C8_RestartOnNewDevice ==
    [][(/\ timers # <<>>
        /\ Head(timers).kind = "restart"
        /\ Head(timers).deviceId \in Ids(cameras)
        /\ Head(timers).c.isScanning
        /\ TimerRestart)
           => /\ Len(pending') = Len(pending) + 1
              /\ pending'[Len(pending')].deviceId = Head(timers).deviceId]_vars

\* C9: stopScanning() twice in a row leaves the same state as stopScanning()
\* once (it touches neither cameras, selectedCamera nor error)
C9_StopIdempotent == stopScanning(stopScanning(HW)) = stopScanning(HW)

\* a scan with its stream held, from which stopScanning() has work to do
C9_Witness ==
    /\ phase = "mounted"
    /\ isScanning
    /\ streamRef # 0
    /\ streamRef \in live
    /\ stopScanning(HW) # HW

\* C10: a stopScanning() call stops the tracks of the held stream and clears
\* the handle, resets the engine, leaves isScanning false, and leaves
\* cameras, selectedCamera and error as they were
C10_StopReleases ==
    [][StopScanning
          => /\ streamRef' = 0
             /\ streamRef \notin live'
             /\ engineStream \notin live'
             /\ engineStream' = 0 /\ videoSrc' = 0 /\ loops' = {}
             /\ ~isScanning'
             /\ UNCHANGED <<cameras, selectedCamera, error>>]_vars

\* stopScanning() has just been called on a scan the consumer still shows
C10_Witness ==
    /\ lastOp = "stop"
    /\ r.isScanning
    /\ ~isScanning
    /\ streamRef = 0
    /\ engineStream = 0
    /\ cameras # <<>>
    /\ selectedCamera # ""

\* C11: handleDetection accepts a text if and only if the text is exactly 10
\* or exactly 13 characters long and every character of it is a decimal digit
C11_AcceptsIffIsbnDigits ==
    verdict # "none"
        => (verdict = "accepted"
               <=> /\ Len(text) \in {10, 13}
                   /\ \A i \in 1..Len(text) : text[i] \in Digits)

\* a text of thirteen digits has been accepted
C11_Witness ==
    /\ verdict = "accepted"
    /\ Len(text) = 13
    /\ \A i \in 1..13 : text[i] \in Digits

\* C12: within a session of the scanner in the page, once an accepted decode
\* has been forwarded to onDetected, no decode loop is bound, so that no
\* further decode is forwarded, until the scanner is shown and started again
C12_NoForwardUntilRestart == verdict = "accepted" => loops = {}

\* an acquisition that was in flight at the accepted decode has resolved
\* since, with the scanner hidden: its stream is open and nothing decodes it
C12_Witness ==
    /\ verdict = "accepted"
    /\ phase = "mounted"
    /\ UiRendered
    /\ ~isVisible
    /\ pending = <<>>
    /\ live # {}

\* C13: a decoded text that is not 10 or 13 decimal digits is rejected and not
\* forwarded to the page's onDetected (the scanner stays visible), and the
\* session is as it was: scanning or not, the stream held, the engine's stream
\* and loop, the device list and the selection
C13_RejectedLeavesSession ==
    [][\A result \in DecodeResults \ {<<>>} :
          (/\ ~(/\ Len(result) \in {10, 13}
                /\ \A i \in 1..Len(result) : result[i] \in Digits)
           /\ DecodeUi(result))
              => /\ verdict' = "rejected"
                 /\ UNCHANGED <<isVisible, isScanning, streamRef, live,
                                engineStream, videoSrc, loops, cameras,
                                selectedCamera, pending, timers>>]_vars

\* a text has been rejected during a scan that holds its stream
C13_Witness ==
    /\ verdict = "rejected"
    /\ lastOp = "other"
    /\ isVisible
    /\ isScanning
    /\ loops # {}
    /\ streamRef # 0
    /\ streamRef \in live

\* C14: the step in which the validator handles a decoded text of 10 or 13
\* decimal digits leaves the session not scanning: isScanning is false and no
\* decode loop is bound
C14_AcceptedStopsScan ==
    [][\A result \in DecodeResults :
          (/\ Len(result) \in {10, 13}
           /\ \A i \in 1..Len(result) : result[i] \in Digits
           /\ DecodeUi(result))
              => /\ ~isScanning'
                 /\ loops' = {}
                 /\ verdict' = "accepted"]_vars

\* a scan the component still shows as running has just been stopped by an
\* accepted decode
C14_Witness ==
    /\ verdict = "accepted"
    /\ lastOp = "other"
    /\ r.isScanning
    /\ shown
    /\ video
    /\ ~isScanning
    /\ loops = {}

\* labels that contain "back", "traseira" or "rear", whatever the case
BackLabels == {"Back Camera", "REAR", "Traseira"}

\* C15: when getCameras ends with a non-empty device list, while the hook is
\* mounted and no camera is selected, and some label contains a back-camera
\* keyword (case-insensitive), selectedCamera becomes the id of the first
\* device in the list with such a label
C15_FirstBackCameraSelected ==
    [][(/\ phase = "mounted"
        /\ selectedCamera = ""
        /\ \E k \in 1..Len(listing) : listing[k].label \in BackLabels
        /\ \E i \in 1..Len(enum) : GetCamerasList(i, listing, FALSE))
           => \E k \in 1..Len(listing) :
                 /\ listing[k].label \in BackLabels
                 /\ \A j \in 1..(k - 1) : listing[j].label \notin BackLabels
                 /\ selectedCamera' = listing[k].deviceId]_vars

\* of Front, REAR, Back Camera the second has been selected
C15_Witness ==
    /\ Len(cameras) = 3
    /\ cameras[1].label = "Front"
    /\ cameras[2].label = "REAR"
    /\ cameras[3].label = "Back Camera"
    /\ selectedCamera = cameras[2].deviceId

\* C16: when getCameras ends with a non-empty device list, while the hook is
\* mounted and no camera is selected, and no label contains a back-camera
\* keyword, selectedCamera becomes the id of the first device of the list
C16_FirstDeviceSelected ==
    [][(/\ phase = "mounted"
        /\ selectedCamera = ""
        /\ listing # <<>>
        /\ \A k \in 1..Len(listing) : listing[k].label \notin BackLabels
        /\ \E i \in 1..Len(enum) : GetCamerasList(i, listing, FALSE))
           => selectedCamera' = listing[1].deviceId]_vars

\* of Front, USB Cam the first has been selected
C16_Witness ==
    /\ Len(cameras) = 2
    /\ cameras[1].label = "Front"
    /\ cameras[2].label = "USB Cam"
    /\ selectedCamera = cameras[1].deviceId

\* C17: when the platform denies the camera permission getCameras asks for,
\* while the hook is mounted, error becomes the denial message, the call ends
\* there without listing devices, cameras (empty before, empty after) and
\* selectedCamera are left as they were, and isScanning does not change
C17_DenialReported ==
    [][\A i \in 1..Len(enum) :
          (phase = "mounted" /\ GetCamerasPermission(i, FALSE))
              => /\ error' = "Camera permission denied. Please enable camera access in your browser settings."
                 /\ enum' = Remove(enum, i)
                 /\ UNCHANGED <<cameras, selectedCamera, isScanning, live,
                                pending>>]_vars

\* the permission was denied to the first getCameras call
C17_Witness ==
    /\ phase = "mounted"
    /\ error = "Camera permission denied. Please enable camera access in your browser settings."
    /\ cameras = <<>>
    /\ selectedCamera = ""
    /\ ~isScanning
    /\ enum = <<>>

\* C18: the throwaway permission stream of getCameras is released before the
\* device list is requested: it is open neither while a call waits for the
\* list nor after a call has ended
C18_PermissionStreamReleased == PermissionStream \notin live

\* a getCameras call was granted the permission and waits for the device list
C18_Witness ==
    /\ phase = "mounted"
    /\ \E i \in 1..Len(enum) : enum[i].pc = "list"
    /\ PermissionStream \notin live

\* C19: a startScanning() call on a mounted hook with no camera selected and
\* no camera listed requests the cameras (a getCameras call is under way
\* after it) and returns: isScanning is not set, no stream acquisition is
\* started, no timer armed, and streams and decode loop are as they were
C19_StartWithoutCamerasEnumerates ==
    [][(/\ selectedCamera = ""
        /\ cameras = <<>>
        /\ StartScanningAny)
           => /\ enum' = Append(enum, [pc |-> "permission", unselected |-> TRUE])
              /\ ~isScanning'
              /\ UNCHANGED <<isScanning, pending, timers, loops, live,
                             streamRef, engineStream>>]_vars

\* the first startScanning() call of a consumer has requested the cameras
C19_Witness ==
    /\ phase = "mounted"
    /\ selectedCamera = ""
    /\ cameras = <<>>
    /\ Len(enum) = 1
    /\ enum[1].pc = "permission"
    /\ ~isScanning
    /\ pending = <<>>
    /\ timers = <<>>
    /\ live = {}

\* C20: with the scanner visible, once getCameras has listed at least one
\* camera and the session is not scanning yet, the session comes to scan
\* (isScanning true, with a stream acquisition under way on the selected
\* camera) with no action of the user, unless the scanner is hidden or a
\* later listing finds no camera before
C20_HandoffReachesScanning ==
    (isVisible /\ cameras # <<>> /\ ~isScanning)
        ~> \/ ~isVisible
           \/ cameras = <<>>
           \/ /\ isScanning
              /\ pending # <<>>
              /\ pending[Len(pending)].deviceId = selectedCamera
              /\ selectedCamera \in Ids(cameras)

\* the effect of the render that followed the listing has started the scan
\* on the camera getCameras selected
C20_Witness ==
    /\ isVisible
    /\ shown
    /\ video
    /\ isScanning
    /\ ~r.isScanning
    /\ selectedCamera = "b"
    /\ pending = <<[deviceId |-> "b", superseded |-> FALSE]>>

\* C21: an error in getCameras or startScanning leaves a non-empty error
\* message in the state; in particular a startScanning() call that finds no
\* reader (readerRef.current is null) leaves error non-empty
C21_EngineUnavailableReported ==
    [][(~readerRef /\ StartScanningEarly) => error' # ""]_vars

\* C22: once the scanner is hidden and the component has rendered it hidden
\* (its effect has called stopScanning), or the view is unmounted, the session
\* is not scanning, holds no stream and runs no decode loop until the scanner
\* is shown again, whatever timer armed before fires
C22_TornDownWhileHidden ==
    (phase # "init" /\ ~isVisible /\ ~shown)
        => ~isScanning /\ streamRef = 0 /\ loops = {}

\* C23: a callback of the decode loop without a result hands nothing to the
\* validator (no verdict, the scanner stays visible) and leaves the session as
\* it was: isScanning, the streams, the loop, the selection and error
C23_NoResultForwardsNothing ==
    [][DecodeUi(<<>>)
          => UNCHANGED <<verdict, isVisible, isScanning, streamRef, live,
                         engineStream, videoSrc, loops, cameras,
                         selectedCamera, error, pending, timers>>]_vars

\* a scan that holds its stream, with its loop running and nothing handed to
\* the validator since it started
C23_Witness ==
    /\ verdict = "none"
    /\ lastOp = "other"
    /\ isVisible
    /\ isScanning
    /\ loops # {}
    /\ streamRef \in loops
    /\ pending = <<>>
    /\ timers = <<>>

\* C24: the timing gap exists (C24_Witness is reached): stopScanning() is
\* called after startScanning() and before the stream-handle lookup has run.
\* A stopScanning() call that finds streamRef null stops no track itself: the
\* only stream that closes is the engine's own, by its reset
C24_StopWithoutHandleReleasesNothing ==
    [][(StopScanning /\ streamRef = 0)
          => /\ live' = live \ {engineStream}
             /\ pending' = pending]_vars

\* stopScanning() has just been called with the lookup of the start still
\* armed, the handle not captured and the stream request of the start under
\* way
C24_Witness ==
    /\ lastOp = "stop"
    /\ phase = "mounted"
    /\ timers = <<[kind |-> "lookup"]>>
    /\ Len(pending) = 1
    /\ streamRef = 0
    /\ ~isScanning
    /\ r.isScanning

\* C25: once the user has granted the permission after a denial, a getCameras
\* call clears error when it starts, and when it ends with the device list,
\* on a mounted hook, cameras is that list, error is as the call left it and,
\* with none selected and a device listed, a listed device is selected
C25_RetryRecovers ==
    [][/\ (regranted /\ GetCameras) => error' = ""
       /\ \A i \in 1..Len(enum) :
             (regranted /\ phase = "mounted"
                 /\ GetCamerasList(i, listing, FALSE))
                => /\ cameras' = listing
                   /\ error' = error
                   /\ (selectedCamera = "" /\ listing # <<>>)
                          => selectedCamera' \in Ids(listing)]_vars

\* after a denial and the user's grant, a getCameras call has ended: no
\* message, the cameras listed and one selected
C25_Witness ==
    /\ regranted
    /\ phase = "mounted"
    /\ error = ""
    /\ cameras # <<>>
    /\ selectedCamera \in Ids(cameras)
    /\ enum = <<>>

\* C26: whenever streamRef holds a stream, that stream is open and is the
\* stream of the most recent start: the engine's current stream, not one of a
\* superseded start
C26_HandleIsCurrentStream ==
    streamRef # 0
        => /\ streamRef \in live
           /\ streamRef = engineStream
           /\ ~attachedStale

\* C27: while the session is scanning a camera is selected, and no stream is
\* requested for the decode loop with an empty device id
C27_ScanningHasSelection ==
    /\ isScanning => selectedCamera # ""
    /\ \A i \in 1..Len(pending) : pending[i].deviceId # ""

\* C28: a successful enumeration never overrides an existing selection: with a
\* camera selected when the list arrives, selectedCamera is left as it is,
\* and an empty list selects nothing
C28_EnumerationKeepsSelection ==
    [][\A i \in 1..Len(enum), devices \in DeviceLists :
          GetCamerasList(i, devices, FALSE) =>
              /\ selectedCamera # "" => selectedCamera' = selectedCamera
              /\ devices = <<>> => selectedCamera' = selectedCamera]_vars

\* C29: the quantity of the book form is at least 1 in every reachable state,
\* whatever the plus button, the minus button and the quantity field did
C29_QuantityAtLeastOne == quantity >= 1

====
